---- MODULE Spec2Model ----
(***************************************************************************)
(* hydrogen_cost_model.py: the toy hydrogen production cost model          *)
(* hydrogen_supply_cost and its helper bounded_cumsum.                     *)
(*                                                                         *)
(* Numbers are exact rationals <<n, d>> in lowest terms with d > 0.  The   *)
(* results of a floating-point division by zero are <<1, 0>> (inf),        *)
(* <<-1, 0>> (-inf) and <<0, 0>> (nan).  Rounding is not modelled.         *)
(***************************************************************************)
EXTENDS Integers, Sequences, FiniteSets, TLC

VARIABLES
    h2_demand__kg_per_hour,                  \* argument, line 7
    electricity_price__usd_per_kwh,          \* argument, line 8
    electrolyzer_size__mw,                   \* argument, line 9
    electrolyzer_capacity_factor__fraction,  \* argument, line 10
    h2_storage_capacity__t,                  \* argument, line 11
    x,              \* bounded_cumsum: the increments
    lower_bound,    \* bounded_cumsum: the floor
    upper_bound,    \* bounded_cumsum: the ceiling
    carry,          \* jax.lax.scan: the carry after the elements consumed so far
    y,              \* jax.lax.scan: the outputs stacked so far
    ret,            \* the tuple hydrogen_supply_cost returned, <<>> before
    pc              \* "entry", "scan", "scanned", "done"

vars == <<h2_demand__kg_per_hour, electricity_price__usd_per_kwh,
          electrolyzer_size__mw, electrolyzer_capacity_factor__fraction,
          h2_storage_capacity__t, x, lower_bound, upper_bound, carry, y,
          ret, pc>>

args == <<h2_demand__kg_per_hour, electricity_price__usd_per_kwh,
          electrolyzer_size__mw, electrolyzer_capacity_factor__fraction,
          h2_storage_capacity__t>>

----------------------------------------------------------------------------
(* Bounds of the model *)

\* longest hourly series given to hydrogen_supply_cost
MaxLen == 3

\* longest increment sequence given to bounded_cumsum on its own
MaxScanLen == 4

----------------------------------------------------------------------------
(* Arithmetic of the jnp arrays' elements *)

Abs(a) == IF a < 0 THEN -a ELSE a

RECURSIVE GCD(_, _)
GCD(a, b) == IF b = 0 THEN a ELSE GCD(b, a % b)

Inf    == <<1, 0>>
NegInf == <<-1, 0>>
NaN    == <<0, 0>>

IsFinite(a) == a[2] # 0
IsNaN(a)    == a = NaN

Sign(n) == IF n > 0 THEN 1 ELSE IF n < 0 THEN -1 ELSE 0

\* n / d in lowest terms; d = 0 gives inf, -inf or nan by the sign of n
Rat(n, d) ==
    IF d = 0 THEN <<Sign(n), 0>>
    ELSE LET g == GCD(Abs(n), Abs(d))
             s == IF d < 0 THEN -1 ELSE 1
         IN  <<s * (n \div g), s * (d \div g)>>

Zero == <<0, 1>>
One  == <<1, 1>>

FNeg(a) == <<-a[1], a[2]>>

FAdd(a, b) ==
    IF IsFinite(a) /\ IsFinite(b)
    THEN LET g == GCD(a[2], b[2])
         IN  Rat(a[1] * (b[2] \div g) + b[1] * (a[2] \div g),
                 (a[2] \div g) * b[2])
    ELSE IF IsNaN(a) \/ IsNaN(b) THEN NaN
    ELSE IF ~IsFinite(a) /\ ~IsFinite(b)
         THEN (IF a = b THEN a ELSE NaN)
    ELSE IF IsFinite(a) THEN b ELSE a

FSub(a, b) == FAdd(a, FNeg(b))

FMul(a, b) ==
    IF IsFinite(a) /\ IsFinite(b)
    THEN LET g1 == GCD(Abs(a[1]), b[2])
             g2 == GCD(Abs(b[1]), a[2])
         IN  Rat((a[1] \div g1) * (b[1] \div g2),
                 (a[2] \div g2) * (b[2] \div g1))
    ELSE IF IsNaN(a) \/ IsNaN(b) THEN NaN
    ELSE <<Sign(a[1]) * Sign(b[1]), 0>>

FDiv(a, b) ==
    IF IsNaN(a) \/ IsNaN(b) THEN NaN
    ELSE IF ~IsFinite(a) /\ ~IsFinite(b) THEN NaN
    ELSE IF ~IsFinite(b) THEN Zero
    ELSE IF b[1] = 0 THEN <<Sign(a[1]), 0>>
    ELSE IF ~IsFinite(a) THEN <<Sign(a[1]) * Sign(b[1]), 0>>
    ELSE FMul(a, Rat(b[2], b[1]))

\* a <= b and a < b on finite values
FLe(a, b) == a[1] * b[2] <= b[1] * a[2]
FLt(a, b) == a[1] * b[2] < b[1] * a[2]

\* jnp.minimum, jnp.maximum on finite values
minimum(a, b) == IF FLe(a, b) THEN a ELSE b
maximum(a, b) == IF FLe(a, b) THEN b ELSE a

\* clip with the ceiling forgotten
clip_NoCeiling(v, lo, hi) == maximum(v, lo)

\* jnp.clip(v, lo, hi): the floor is applied first, the ceiling last
clip(v, lo, hi) == minimum(maximum(v, lo), hi)

\* jnp.sum
RECURSIVE sum(_)
sum(s) == IF s = <<>> THEN Zero ELSE FAdd(s[1], sum(Tail(s)))

\* jnp.roll(s, shift): element i moves to index i + shift, circularly
roll(s, shift) ==
    [i \in 1..Len(s) |-> s[((i - 1 - shift) % Len(s)) + 1]]

\* elementwise operations on arrays, and on an array and a scalar
ArrSub(a, b)       == [i \in 1..Len(a) |-> FSub(a[i], b[i])]
ArrMul(a, b)       == [i \in 1..Len(a) |-> FMul(a[i], b[i])]
ArrMinimum(a, b)   == [i \in 1..Len(a) |-> minimum(a[i], b[i])]
ArrScale(a, c)     == [i \in 1..Len(a) |-> FMul(a[i], c)]
ArrDivBy(a, c)     == [i \in 1..Len(a) |-> FDiv(a[i], c)]
ArrSubScalar(a, c) == [i \in 1..Len(a) |-> FSub(a[i], c)]
ArrMinScalar(a, c) == [i \in 1..Len(a) |-> minimum(a[i], c)]
ArrMaxScalar(a, c) == [i \in 1..Len(a) |-> maximum(a[i], c)]

----------------------------------------------------------------------------
(* hydrogen_supply_cost, lines 14-68: parameters, sizes, storage limits    *)
(* and the shifted balance                                                 *)

electrolyzer_capital_cost__usd_per_kw     == <<1500, 1>>
electrolyzer_efficiency__fraction         == <<3, 5>>
electrolyzer_lifetime__years              == <<20, 1>>
hydrogen_higher_heating_value__kwh_per_kg == <<3939, 100>>
h2_deficit_penalty_factor                 == <<10, 1>>

h2_storage_capacity__kg == FMul(h2_storage_capacity__t, <<1000, 1>>)
h2_storage_capital_cost__usd_per_kg == <<600, 1>>
h2_storage_level_start__fraction    == <<1, 2>>

electrolyzer_size__kw == FMul(electrolyzer_size__mw, <<1000, 1>>)

total_electrolyzer_capital_cost__usd ==
    FMul(electrolyzer_size__kw, electrolyzer_capital_cost__usd_per_kw)

electricity_consumption__kwh_per_hour ==
    ArrScale(electrolyzer_capacity_factor__fraction, electrolyzer_size__kw)

h2_production__kg_per_hour ==
    ArrDivBy(ArrScale(electricity_consumption__kwh_per_hour,
                      electrolyzer_efficiency__fraction),
             hydrogen_higher_heating_value__kwh_per_kg)

total_h2_storage_capital_cost__usd ==
    FMul(h2_storage_capacity__kg, h2_storage_capital_cost__usd_per_kg)

h2_storage_lower_bound ==
    FMul(FMul(<<-1, 1>>, h2_storage_capacity__kg),
         h2_storage_level_start__fraction)

h2_storage_upper_bound ==
    FMul(h2_storage_capacity__kg, FSub(One, h2_storage_level_start__fraction))

h2_demand_supply_balance__kg_per_hour ==
    ArrSub(h2_production__kg_per_hour, h2_demand__kg_per_hour)

\* the balance fed to the accumulation without the shift
balance_NotShifted == h2_demand_supply_balance__kg_per_hour

h2_demand_supply_balance_shifted__kg_per_hour ==
    roll(h2_demand_supply_balance__kg_per_hour, 1)

----------------------------------------------------------------------------
(* bounded_cumsum, lines 155-163 *)

\* the scan started from a carry that is not zero
initial_carry_One == One

initial_carry == Zero

\* body(carry, xi): the new carry, which is also the element emitted
new_sum(sum_so_far, xi) == clip(FAdd(sum_so_far, xi), lower_bound, upper_bound)

----------------------------------------------------------------------------
(* hydrogen_supply_cost, lines 70-141: everything after the accumulation.  *)
(* These read y, the array bounded_cumsum returned.                        *)

h2_relative_storage_level__kg == y

h2_absolute_storage_level__kg ==
    ArrSubScalar(h2_relative_storage_level__kg, h2_storage_lower_bound)

\* the difference not closed circularly: the last hour has no successor
charge_and_discharge_NoWrap ==
    LET level == h2_absolute_storage_level__kg
    IN  [i \in 1..Len(level) |->
            IF i < Len(level) THEN FSub(level[i + 1], level[i]) ELSE Zero]

h2_storage_charge_and_discharge__kg_per_hour ==
    LET level == h2_absolute_storage_level__kg
    IN  ArrSub(roll(level, -1), level)

\* production - charge/discharge, the second operand of line 91
SupplyFromProductionAndStorage ==
    ArrSub(h2_production__kg_per_hour,
           h2_storage_charge_and_discharge__kg_per_hour)

\* the supply not capped at the demand
supply_NotCapped == SupplyFromProductionAndStorage

h2_supply__kg_per_hour ==
    ArrMinimum(h2_demand__kg_per_hour, SupplyFromProductionAndStorage)

\* balance - charge/discharge, the first operand of lines 96-97 and 103-104
BalanceAfterStorage ==
    ArrSub(h2_demand_supply_balance__kg_per_hour,
           h2_storage_charge_and_discharge__kg_per_hour)

h2_deficit__kg_per_hour == ArrMinScalar(BalanceAfterStorage, Zero)

h2_surplus__kg_per_hour == ArrMaxScalar(BalanceAfterStorage, Zero)

annual_h2_demand__kg_per_year == sum(h2_demand__kg_per_hour)

annual_h2_deficit__kg_per_year == sum(h2_deficit__kg_per_hour)

\* the ratio with the sign of the deficit kept
deficit_ratio_NotNegated ==
    FDiv(annual_h2_deficit__kg_per_year, annual_h2_demand__kg_per_year)

annual_h2_deficit__ratio ==
    FDiv(FNeg(annual_h2_deficit__kg_per_year), annual_h2_demand__kg_per_year)

annual_h2_supply__kg == sum(h2_supply__kg_per_hour)

h2_production_electricity_cost__usd_per_hour ==
    ArrMul(electricity_consumption__kwh_per_hour,
           electricity_price__usd_per_kwh)

annual_h2_production_electricity_cost__usd_per_year ==
    sum(h2_production_electricity_cost__usd_per_hour)

total_costs__usd ==
    FAdd(FAdd(total_electrolyzer_capital_cost__usd,
              FMul(annual_h2_production_electricity_cost__usd_per_year,
                   electrolyzer_lifetime__years)),
         total_h2_storage_capital_cost__usd)

total_h2_supply__kg == FMul(annual_h2_supply__kg, electrolyzer_lifetime__years)

lcoh__usd_per_kg == FDiv(total_costs__usd, total_h2_supply__kg)

lcoh_with_deficit_penalty__usd_per_kg ==
    FMul(lcoh__usd_per_kg,
         FAdd(One, FMul(annual_h2_deficit__ratio, h2_deficit_penalty_factor)))

----------
(* Inputs *)

DemandValues         == {Zero, <<4, 1>>}
CapacityFactorValues == {Zero, One}
PriceValues          == {Zero, <<1, 10>>}
SizeValues           == {Zero, <<3939, 10000>>}
CapacityValues       == {<<-1, 250>>, Zero, <<1, 250>>, <<1, 50>>}

IncrementValues == {<<5, 1>>, <<-3, 1>>, <<100, 1>>, <<-200, 1>>, <<50, 1>>}
BoundPairs      == {<<(<<-10, 1>>), (<<10, 1>>)>>, <<Zero, Zero>>,
                    <<(<<10, 1>>), (<<-10, 1>>)>>}

NoArgs == <<>>

----------------------------------------------------------------------------
(* hydrogen_supply_cost called with equal-length series *)

Init ==
    /\ \E n \in 0..MaxLen :
         /\ h2_demand__kg_per_hour \in [1..n -> DemandValues]
         /\ electrolyzer_capacity_factor__fraction
                \in [1..n -> CapacityFactorValues]
         /\ \E p \in PriceValues :
                electricity_price__usd_per_kwh = [i \in 1..n |-> p]
    /\ electrolyzer_size__mw \in SizeValues
    /\ h2_storage_capacity__t \in CapacityValues
    /\ x = <<>>
    /\ lower_bound = Zero
    /\ upper_bound = Zero
    /\ carry = Zero
    /\ y = <<>>
    /\ ret = <<>>
    /\ pc = "entry"

\* lines 14-74: up to the call of bounded_cumsum, whose scan starts
CallBoundedCumsum ==
    /\ pc = "entry"
    /\ x' = h2_demand_supply_balance_shifted__kg_per_hour
    /\ lower_bound' = h2_storage_lower_bound
    /\ upper_bound' = h2_storage_upper_bound
    /\ carry' = initial_carry
    /\ y' = <<>>
    /\ pc' = "scan"
    /\ UNCHANGED <<args, ret>>

\* lines 156-159: one step of the scan over x
body ==
    /\ pc = "scan"
    /\ Len(y) < Len(x)
    /\ LET xi == x[Len(y) + 1]
       IN  /\ carry' = new_sum(carry, xi)
           /\ y' = Append(y, new_sum(carry, xi))
    /\ UNCHANGED <<args, x, lower_bound, upper_bound, ret, pc>>

\* lines 162-163: the scan has consumed x; y is returned
ReturnY ==
    /\ pc = "scan"
    /\ Len(y) = Len(x)
    /\ pc' = "scanned"
    /\ UNCHANGED <<args, x, lower_bound, upper_bound, carry, y, ret>>

\* lines 76-151: the rest of hydrogen_supply_cost and its return
Return ==
    /\ pc = "scanned"
    /\ ret' = [lcoh_with_deficit_penalty__usd_per_kg |->
                   lcoh_with_deficit_penalty__usd_per_kg,
               h2_absolute_storage_level__kg |-> h2_absolute_storage_level__kg,
               annual_h2_deficit__ratio |-> annual_h2_deficit__ratio,
               h2_deficit__kg_per_hour |-> h2_deficit__kg_per_hour,
               h2_surplus__kg_per_hour |-> h2_surplus__kg_per_hour,
               h2_production__kg_per_hour |-> h2_production__kg_per_hour,
               h2_storage_charge_and_discharge__kg_per_hour |->
                   h2_storage_charge_and_discharge__kg_per_hour]
    /\ pc' = "done"
    /\ UNCHANGED <<args, x, lower_bound, upper_bound, carry, y>>

Next == CallBoundedCumsum \/ body \/ ReturnY \/ Return

Spec == Init /\ [][Next]_vars

----------------------------------------------------------------------------
(* bounded_cumsum called on its own *)

InitCumsum ==
    /\ h2_demand__kg_per_hour = NoArgs
    /\ electricity_price__usd_per_kwh = NoArgs
    /\ electrolyzer_size__mw = Zero
    /\ electrolyzer_capacity_factor__fraction = NoArgs
    /\ h2_storage_capacity__t = Zero
    /\ \E n \in 0..MaxScanLen : x \in [1..n -> IncrementValues]
    /\ \E b \in BoundPairs : lower_bound = b[1] /\ upper_bound = b[2]
    /\ carry = initial_carry
    /\ y = <<>>
    /\ ret = <<>>
    /\ pc = "scan"

NextCumsum == body \/ ReturnY

SpecCumsum == InitCumsum /\ [][NextCumsum]_vars

----------------------------------------------------------------------------
(* Properties *)

Returned == pc = "done"

N == Len(h2_demand__kg_per_hour)

\* the successor of hour i, circularly wrapped
NextHour(i) == (i % N) + 1

CapacityNonNegative == FLe(Zero, h2_storage_capacity__t)

InputsNonNegative ==
    /\ \A i \in 1..N : FLe(Zero, h2_demand__kg_per_hour[i])
    /\ \A i \in 1..N : FLe(Zero, h2_production__kg_per_hour[i])

\* clamp(v, lo, hi) = max(lo, min(hi, v))
clamp(v, lo, hi) == maximum(lo, minimum(hi, v))

\* the running total before element i of the accumulation
Before(i) == IF i = 1 THEN Zero ELSE y[i - 1]

\* C1: with a storage capacity >= 0 the returned absolute storage level has
\* the length of the input and lies in [0, capacity in kg] at every hour;
\* the relative level lies in [-(capacity * 0.5), capacity * 0.5].
C1_StorageStaysInBounds ==
    (Returned /\ CapacityNonNegative) =>
        /\ Len(ret.h2_absolute_storage_level__kg) = N
        /\ \A i \in 1..N :
            /\ FLe(Zero, ret.h2_absolute_storage_level__kg[i])
            /\ FLe(ret.h2_absolute_storage_level__kg[i],
                   h2_storage_capacity__kg)
            /\ FLe(FNeg(FMul(h2_storage_capacity__kg, <<1, 2>>)),
                   h2_relative_storage_level__kg[i])
            /\ FLe(h2_relative_storage_level__kg[i],
                   FMul(h2_storage_capacity__kg, <<1, 2>>))

\* a run in which the storage was full at one hour and empty at another
C1_Witness ==
    /\ Returned
    /\ FLt(Zero, h2_storage_capacity__t)
    /\ \E i \in 1..N :
          ret.h2_absolute_storage_level__kg[i] = h2_storage_capacity__kg
    /\ \E i \in 1..N : ret.h2_absolute_storage_level__kg[i] = Zero

\* C2: the hourly realized supply is never greater than the hourly demand.
C2_SupplyNeverExceedsDemand ==
    Returned =>
        \A i \in 1..N :
            FLe(h2_supply__kg_per_hour[i], h2_demand__kg_per_hour[i])

\* a run with an hour whose supply was capped at the demand and an hour whose
\* supply fell short of it
C2_Witness ==
    /\ Returned
    /\ \E i \in 1..N :
          /\ FLt(h2_demand__kg_per_hour[i], SupplyFromProductionAndStorage[i])
          /\ h2_supply__kg_per_hour[i] = h2_demand__kg_per_hour[i]
    /\ \E i \in 1..N :
          FLt(h2_supply__kg_per_hour[i], h2_demand__kg_per_hour[i])

\* C3: with lower <= upper, bounded_cumsum returns y of the length of x with
\* y[0] = clamp(0 + x[0]) and y[i] = clamp(y[i-1] + x[i]); increments
\* [5, -3, 100, -200] in [-10, 10] give [5, 2, 10, -10], and a first
\* increment of 50 gives y[0] = 10.
C3_BoundedCumsumRecurrence ==
    (pc = "scanned" /\ FLe(lower_bound, upper_bound)) =>
        /\ Len(y) = Len(x)
        /\ \A i \in 1..Len(x) :
              y[i] = clamp(FAdd(Before(i), x[i]), lower_bound, upper_bound)
        /\ ( /\ x = << <<5, 1>>, <<-3, 1>>, <<100, 1>>, <<-200, 1>> >>
             /\ lower_bound = <<-10, 1>>
             /\ upper_bound = <<10, 1>> )
           => y = << <<5, 1>>, <<2, 1>>, <<10, 1>>, <<-10, 1>> >>
        /\ ( /\ Len(x) >= 1
             /\ x[1] = <<50, 1>>
             /\ lower_bound = <<-10, 1>>
             /\ upper_bound = <<10, 1>> )
           => y[1] = <<10, 1>>

\* the accumulation of [5, -3, 100, -200] in [-10, 10] has returned
C3_Witness ==
    /\ pc = "scanned"
    /\ x = << <<5, 1>>, <<-3, 1>>, <<100, 1>>, <<-200, 1>> >>
    /\ lower_bound = <<-10, 1>>
    /\ upper_bound = <<10, 1>>
    /\ y = << <<5, 1>>, <<2, 1>>, <<10, 1>>, <<-10, 1>> >>

\* C4: when the total lifetime supply is zero the operation reports an error;
\* it does not return a tuple whose LCOH is infinity or NaN (stated for
\* series of at least one hour).
C4_ZeroSupplyIsReported ==
    ~ ( /\ Returned
        /\ N >= 1
        /\ total_h2_supply__kg = Zero
        /\ ~IsFinite(ret.lcoh_with_deficit_penalty__usd_per_kg) )

\* C5: with non-negative demand and production, positive annual demand and a
\* storage capacity >= 0, the returned annual deficit ratio lies in [0, 1].
C5_DeficitRatioInUnitInterval ==
    ( /\ Returned
      /\ InputsNonNegative
      /\ CapacityNonNegative
      /\ FLt(Zero, annual_h2_demand__kg_per_year) ) =>
        /\ IsFinite(ret.annual_h2_deficit__ratio)
        /\ FLe(Zero, ret.annual_h2_deficit__ratio)
        /\ FLe(ret.annual_h2_deficit__ratio, One)

\* a run in which part, and only part, of the annual demand was unmet
C5_Witness ==
    /\ Returned
    /\ InputsNonNegative
    /\ CapacityNonNegative
    /\ FLt(Zero, annual_h2_demand__kg_per_year)
    /\ FLt(Zero, ret.annual_h2_deficit__ratio)
    /\ FLt(ret.annual_h2_deficit__ratio, One)

\* the accumulation added every increment in full: no step was clamped
StorageAbsorbsAllImbalance ==
    \A i \in 1..Len(x) : y[i] = FAdd(Before(i), x[i])

ProductionCoversDemand ==
    \A i \in 1..N :
        FLe(h2_demand__kg_per_hour[i], h2_production__kg_per_hour[i])

\* C6: where production >= demand at every hour, the storage absorbs all
\* imbalance and the annual demand is positive, the deficit ratio is 0 and
\* the penalized LCOH is total lifetime cost / total lifetime supply.
C6_NoDeficitNoPenalty ==
    ( /\ Returned
      /\ ProductionCoversDemand
      /\ StorageAbsorbsAllImbalance
      /\ FLt(Zero, annual_h2_demand__kg_per_year) ) =>
        /\ ret.annual_h2_deficit__ratio = Zero
        /\ IsFinite(ret.lcoh_with_deficit_penalty__usd_per_kg)
        /\ ret.lcoh_with_deficit_penalty__usd_per_kg
               = FDiv(total_costs__usd, total_h2_supply__kg)

\* a run with a positive imbalance at some hour, all of it stored
C6_Witness ==
    /\ Returned
    /\ ProductionCoversDemand
    /\ StorageAbsorbsAllImbalance
    /\ FLt(Zero, annual_h2_demand__kg_per_year)
    /\ N >= 2
    /\ \E i \in 1..N : FLt(Zero, h2_demand_supply_balance__kg_per_hour[i])
    /\ ret.annual_h2_deficit__ratio = Zero

\* C7: charge/discharge is negative when charging and positive when
\* discharging: if the level rises from hour i to the next hour then
\* charge_discharge[i] < 0, and if it falls then charge_discharge[i] > 0.
C7_ChargeNegativeDischargePositive ==
    Returned =>
        \A i \in 1..N :
            LET level == ret.h2_absolute_storage_level__kg
                flow  == ret.h2_storage_charge_and_discharge__kg_per_hour
            IN  /\ FLt(level[i], level[NextHour(i)]) => FLt(flow[i], Zero)
                /\ FLt(level[NextHour(i)], level[i]) => FLt(Zero, flow[i])

\* C8: for every input of length >= 1 the returned charge/discharge series
\* sums to zero over the full cycle.
C8_ChargeDischargeSumsToZero ==
    (Returned /\ N >= 1) =>
        sum(ret.h2_storage_charge_and_discharge__kg_per_hour) = Zero

\* a run in which the storage level moved and the wrap closed the cycle
C8_Witness ==
    /\ Returned
    /\ N >= 2
    /\ \E i \in 1..(N - 1) :
          ret.h2_storage_charge_and_discharge__kg_per_hour[i] # Zero
    /\ ret.h2_storage_charge_and_discharge__kg_per_hour[N] # Zero
    /\ sum(ret.h2_storage_charge_and_discharge__kg_per_hour) = Zero

\* C9: the level at hour 0 is the starting fill level, 0.5 * capacity
\* (relative level 0), and for i >= 1 the relative level at hour i is
\* clamp(relative level[i-1] + (production[i-1] - demand[i-1])).
C9_LevelIsStateBeforeTheHour ==
    (Returned /\ CapacityNonNegative /\ N >= 1) =>
        /\ ret.h2_absolute_storage_level__kg[1]
               = FMul(<<1, 2>>, h2_storage_capacity__kg)
        /\ h2_relative_storage_level__kg[1] = Zero
        /\ \A i \in 2..N :
              h2_relative_storage_level__kg[i]
                  = clamp(FAdd(h2_relative_storage_level__kg[i - 1],
                               h2_demand_supply_balance__kg_per_hour[i - 1]),
                          h2_storage_lower_bound, h2_storage_upper_bound)

\* C10: with non-negative demand and production, at every hour, the last one
\* included, the deficit is <= 0 and its magnitude is at most the demand of
\* that hour.
C10_DeficitWithinDemand ==
    (Returned /\ InputsNonNegative /\ CapacityNonNegative) =>
        \A i \in 1..N :
            /\ FLe(ret.h2_deficit__kg_per_hour[i], Zero)
            /\ FLe(FNeg(ret.h2_deficit__kg_per_hour[i]),
                   h2_demand__kg_per_hour[i])

====
